---- MODULE Spec2Model ----
(***************************************************************************)
(* A model of the intmax2 client core: transfer batching, the wasm tx      *)
(* submission entry points, the retrying request layer, the balance prover *)
(* client and the compressed proof codec.                                  *)
(*                                                                         *)
(* Every component has its own specification (SpecBatch, SpecTx, ...).     *)
(* The variables of the components a specification does not exercise keep  *)
(* their initial value.                                                    *)
(***************************************************************************)
EXTENDS Integers, Sequences, FiniteSets, TLC

VARIABLES
    transfers,      \* the caller-supplied transfers of the call under way
    tx_call,        \* the last entry point called on the tx path, with its inputs
    transfer_tree,  \* the transfer tree built by the last call (leaves in push order)
    tx_result,      \* what the last call on the tx path returned
    requested,      \* the transactions whose send_tx_request succeeded so far
    bb_calls,       \* the block builder requests the last call issued
    net_fails,      \* the transport fails on attempts 1..net_fails of a request
    server_response,\* what the server answers once the transport gets through
    rq_call,        \* the last request function called, with its inputs
    rq_attempts,    \* network calls the last request made
    rq_result,      \* what the last request returned
    bearer_env,     \* BALANCE_PROVER_BEARER_TOKEN of the process environment
    bp_call,        \* the last stage operation called on the balance prover client
    bp_request,     \* the request body that call built
    bp_result,      \* what that call returned
    cursor,         \* the last stage a synchronization run has applied
    tip,            \* the proof tip of the run
    sync_log,       \* the stage requests the run has issued, in order
    cd_proof,       \* the proof handed to the codec
    cd_digest,      \* the circuit digest of the metadata it is encoded with
    cd_bytes,       \* the encoded proof, as it reaches the decoder
    cd_tampered,    \* whether the length prefix of cd_bytes was altered after encoding
    cd_call,        \* the last codec operation, with the digest it was given
    cd_result       \* what the last decode returned

txVars == <<transfers, tx_call, transfer_tree, tx_result, requested, bb_calls>>
netVars == <<net_fails, server_response>>
rqVars == <<rq_call, rq_attempts, rq_result>>
bpVars == <<bearer_env, bp_call, bp_request, bp_result>>
syncVars == <<cursor, tip, sync_log>>
cdVars == <<cd_proof, cd_digest, cd_bytes, cd_tampered, cd_call, cd_result>>

vars == <<txVars, netVars, rqVars, bpVars, syncVars, cdVars>>

(***************************************************************************)
(* Bounds of the model                                                     *)
(***************************************************************************)
\* the protocol constant N, scaled down from the library's value
NUM_TRANSFERS_IN_TX == 4
\* transaction identities a run may use
MaxTx == 2
\* the attempt count of the retry policy
MaxAttempts == 3
\* stage requests of one synchronization run
MaxSyncCalls == 6
\* public inputs of a proof
MaxPis == 2
\* query rounds of a proof and size of the evaluation domain they index
NumQueryRounds == 2
LdeSize == 4

Min(a, b) == IF a < b THEN a ELSE b

RECURSIVE Log2Ceil(_)
Log2Ceil(n) == IF n <= 1 THEN 0 ELSE 1 + Log2Ceil((n + 1) \div 2)

\* height of the transfer tree: the tree holds 2^height leaves
TRANSFER_TREE_HEIGHT == Log2Ceil(NUM_TRANSFERS_IN_TX)

(***************************************************************************)
(* Transfer batching (client-sdk/src/client/utils.rs)                      *)
(***************************************************************************)
\* Transfer::default()
DefaultTransfer == "default"
Transfers == {DefaultTransfer, "t1", "t2"}

SeqsUpTo(S, n) == UNION {[1..k -> S] : k \in 0..n}

\* Vec::resize(new_len, value): truncates when longer, appends value when shorter
ResizePadFront(v, new_len, value) ==
    IF Len(v) >= new_len THEN SubSeq(v, 1, new_len)
    ELSE [i \in 1..(new_len - Len(v)) |-> value] \o v

Resize(v, new_len, value) ==
    IF Len(v) >= new_len THEN SubSeq(v, 1, new_len)
    ELSE v \o [i \in 1..(new_len - Len(v)) |-> value]

\* no tree was constructed
NoTree == [built |-> FALSE, height |-> 0, leaves |-> <<>>]

\* TransferTree::new(height)
TransferTreeNew(height) == [built |-> TRUE, height |-> height, leaves |-> <<>>]

\* TransferTree::push(leaf): appends the leaf at the next free index
TransferTreePush(tree, leaf) == [tree EXCEPT !.leaves = Append(@, leaf)]

RECURSIVE PushAll(_, _)
PushAll(tree, ts) ==
    IF ts = <<>> THEN tree
    ELSE PushAll(TransferTreePush(tree, Head(ts)), Tail(ts))

generate_transfer_tree(ts) ==
    LET padded == Resize(ts, NUM_TRANSFERS_IN_TX, DefaultTransfer)
    IN  PushAll(TransferTreeNew(TRANSFER_TREE_HEIGHT), padded)

(***************************************************************************)
(* Tx submission (wasm/src/lib.rs) over the client of client-sdk           *)
(***************************************************************************)
TxIds == 1..MaxTx

\* ClientError (src/client/error.rs): the errors a client operation returns
ClientError == {"ServerError", "WitnessGenerationError", "InternalError",
                "SyncError", "DecryptionError"}

Ok(v) == [ok |-> TRUE, err |-> "", value |-> v]
Err(e) == [ok |-> FALSE, err |-> e, value |-> 0]
NoResult == [ok |-> FALSE, err |-> "none", value |-> 0]

NoCall == [op |-> "none", key_ok |-> TRUE, js_ok |-> TRUE, net |-> "ok", tx |-> 0,
           memo |-> 0, proposal |-> 0, answer |-> "none"]

\* Client::send_tx_request: builds the transfer tree of the transfers, submits the
\* tx to the block builder and returns the memo of the request
ClientSendTxRequest(ts, tx, net) ==
    LET tree == generate_transfer_tree(ts)
    IN  [tree   |-> tree,
         calls  |-> <<[op |-> "tx_request", tx |-> tx, proposal |-> 0]>>,
         result |-> IF net = "ok" THEN Ok(tx) ELSE Err("ServerError")]

\* send_tx_request of the wasm entry points
send_tx_request(ts, key_ok, js_ok, tx, net) ==
    IF Len(ts) > NUM_TRANSFERS_IN_TX
    THEN [tree |-> NoTree, calls |-> <<>>, result |-> Err("too_many_transfers")]
    ELSE IF ~key_ok
    THEN [tree |-> NoTree, calls |-> <<>>, result |-> Err("invalid_key")]
    ELSE IF ~js_ok
    THEN [tree |-> NoTree, calls |-> <<>>, result |-> Err("invalid_transfer")]
    ELSE ClientSendTxRequest(ts, tx, net)

\* Client::finalize_tx: signs the proposal and posts the signature to the block
\* builder; the memo it works from is the one the caller hands in
ClientFinalizeTx(memo, proposal, net) ==
    [calls  |-> <<[op |-> "post_signature", tx |-> memo, proposal |-> proposal]>>,
     result |-> IF net = "ok" THEN Ok(memo) ELSE Err("ServerError")]

\* finalize_tx of the wasm entry points
finalize_tx(key_ok, memo_ok, proposal_ok, memo, proposal, net) ==
    IF ~key_ok THEN [calls |-> <<>>, result |-> Err("invalid_key")]
    ELSE IF ~memo_ok THEN [calls |-> <<>>, result |-> Err("invalid_memo")]
    ELSE IF ~proposal_ok THEN [calls |-> <<>>, result |-> Err("invalid_proposal")]
    ELSE ClientFinalizeTx(memo, proposal, net)

\* what the block builder holds for a transaction when it is asked for its
\* proposal: none yet, a proposal that passes the client's checks, or one that
\* fails them
ProposalAnswers == {"not_found", "valid", "invalid"}

\* JsBlockProposal::from_block_proposal: the proposal as the wasm caller sees it
JsBlockProposalFrom(proposal) == [block_proposal |-> proposal]
NoProposal == [some |-> FALSE, v |-> JsBlockProposalFrom(0)]
SomeProposal(js) == [some |-> TRUE, v |-> js]

\* Client::query_proposal: asks the block builder once for the proposal of the tx;
\* no proposal yet is Ok(None), a proposal that fails the checks is an error
ClientQueryProposal(tx, answer, net) ==
    [calls  |-> <<[op |-> "query_proposal", tx |-> tx, proposal |-> 0]>>,
     result |-> IF net # "ok" THEN Err("ServerError")
                ELSE IF answer = "not_found" THEN Ok([some |-> FALSE, v |-> 0])
                ELSE IF answer = "valid" THEN Ok([some |-> TRUE, v |-> tx])
                ELSE Err("InvalidProposal")]

\* query_proposal of the wasm entry points
query_proposalNoneAsError(key_ok, tx_ok, tx, answer, net) ==
    IF ~key_ok THEN [calls |-> <<>>, result |-> Err("invalid_key")]
    ELSE IF ~tx_ok THEN [calls |-> <<>>, result |-> Err("invalid_tx")]
    ELSE LET r == ClientQueryProposal(tx, answer, net)
         IN  IF ~r.result.ok THEN r
             ELSE IF r.result.value.some
             THEN [calls |-> r.calls,
                   result |-> Ok(SomeProposal(JsBlockProposalFrom(r.result.value.v)))]
             ELSE [calls |-> r.calls, result |-> Err("proposal_not_found")]

query_proposal(key_ok, tx_ok, tx, answer, net) ==
    IF ~key_ok THEN [calls |-> <<>>, result |-> Err("invalid_key")]
    ELSE IF ~tx_ok THEN [calls |-> <<>>, result |-> Err("invalid_tx")]
    ELSE LET r == ClientQueryProposal(tx, answer, net)
         IN  IF ~r.result.ok THEN r
             ELSE IF r.result.value.some
             THEN [calls |-> r.calls,
                   result |-> Ok(SomeProposal(JsBlockProposalFrom(r.result.value.v)))]
             ELSE [calls |-> r.calls, result |-> Ok(NoProposal)]

InitTxIdle ==
    /\ tx_call = NoCall
    /\ transfer_tree = NoTree
    /\ tx_result = NoResult
    /\ requested = {}
    /\ bb_calls = <<>>

\* a caller of client-sdk calls generate_transfer_tree on its transfers
GenerateTransferTree ==
    /\ tx_call' = [NoCall EXCEPT !.op = "generate_transfer_tree"]
    /\ transfer_tree' = generate_transfer_tree(transfers)
    /\ tx_result' = Ok(0)
    /\ bb_calls' = <<>>
    /\ UNCHANGED <<transfers, requested, netVars, rqVars, bpVars, syncVars, cdVars>>

\* a caller of the wasm module calls send_tx_request on its transfers
SendTxRequest ==
    /\ \E key_ok \in BOOLEAN, js_ok \in BOOLEAN, tx \in TxIds, net \in {"ok", "err"} :
         LET r == send_tx_request(transfers, key_ok, js_ok, tx, net)
         IN  /\ tx_call' = [NoCall EXCEPT !.op = "send_tx_request", !.key_ok = key_ok,
                                          !.js_ok = js_ok, !.net = net, !.tx = tx]
             /\ transfer_tree' = r.tree
             /\ tx_result' = r.result
             /\ bb_calls' = r.calls
             /\ requested' = IF r.result.ok THEN requested \cup {r.result.value}
                             ELSE requested
    /\ UNCHANGED <<transfers, netVars, rqVars, bpVars, syncVars, cdVars>>

\* a caller of the wasm module calls finalize_tx with a memo and a proposal it holds
FinalizeTx ==
    /\ \E key_ok \in BOOLEAN, memo_ok \in BOOLEAN, proposal_ok \in BOOLEAN,
          memo \in TxIds, proposal \in TxIds, net \in {"ok", "err"} :
         LET r == finalize_tx(key_ok, memo_ok, proposal_ok, memo, proposal, net)
         IN  /\ tx_call' = [NoCall EXCEPT !.op = "finalize_tx", !.key_ok = key_ok,
                                          !.js_ok = memo_ok /\ proposal_ok, !.net = net,
                                          !.memo = memo, !.proposal = proposal]
             /\ tx_result' = r.result
             /\ bb_calls' = r.calls
    /\ transfer_tree' = NoTree
    /\ UNCHANGED <<transfers, requested, netVars, rqVars, bpVars, syncVars, cdVars>>

\* a caller of the wasm module polls the block builder for the proposal of a tx
QueryProposal ==
    /\ \E key_ok \in BOOLEAN, tx_ok \in BOOLEAN, tx \in TxIds,
          answer \in ProposalAnswers, net \in {"ok", "err"} :
         LET r == query_proposal(key_ok, tx_ok, tx, answer, net)
         IN  /\ tx_call' = [NoCall EXCEPT !.op = "query_proposal", !.key_ok = key_ok,
                                          !.js_ok = tx_ok, !.net = net, !.tx = tx,
                                          !.answer = answer]
             /\ tx_result' = r.result
             /\ bb_calls' = r.calls
    /\ transfer_tree' = NoTree
    /\ UNCHANGED <<transfers, requested, netVars, rqVars, bpVars, syncVars, cdVars>>

(***************************************************************************)
(* Retrying request layer (client-sdk/src/external_api/utils/query.rs)     *)
(***************************************************************************)
\* characters of the request text an error carries
AbrLimit == 500

None == [some |-> FALSE, v |-> ""]
Some(x) == [some |-> TRUE, v |-> x]

\* response bodies: the text (a sequence of characters), whether it can be read,
\* what it parses to as an ErrorResponse {error, message?} and what it parses to
\* as the expected type R
NoMessage == [some |-> FALSE, v |-> <<>>]
NotJson == [valid |-> FALSE, error |-> <<>>, message |-> NoMessage]
NotR == [valid |-> FALSE, v |-> ""]
\* a text longer than the request text an error carries
LongText == [i \in 1..(AbrLimit + 1) |-> IF i > AbrLimit THEN "!" ELSE "z"]
Bodies ==
    { [text |-> <<"proof_json">>, readable |-> TRUE, as_error |-> NotJson,
       as_r |-> [valid |-> TRUE, v |-> "pA"]],
      [text |-> <<"error_json">>, readable |-> TRUE,
       as_error |-> [valid |-> TRUE, error |-> <<"E">>, message |-> NoMessage],
       as_r |-> NotR],
      [text |-> <<"error_message_json">>, readable |-> TRUE,
       as_error |-> [valid |-> TRUE, error |-> <<"E">>, message |-> Some(<<"M">>)],
       as_r |-> NotR],
      [text |-> <<"plain", " ", "text">>, readable |-> TRUE, as_error |-> NotJson,
       as_r |-> NotR],
      [text |-> LongText, readable |-> TRUE, as_error |-> NotJson, as_r |-> NotR],
      [text |-> <<"error_and_proof_json">>, readable |-> TRUE,
       as_error |-> [valid |-> TRUE, error |-> <<"E">>, message |-> NoMessage],
       as_r |-> [valid |-> TRUE, v |-> "pB"]],
      [text |-> <<>>, readable |-> FALSE, as_error |-> NotJson, as_r |-> NotR] }

Statuses == {200, 204, 404, 500}
Responses == [status : Statuses, body : Bodies]

\* StatusCode::is_success
IsSuccess(status) == status >= 200 /\ status <= 299

\* what one send().await gives: a transport error, or the response whatever its status
TransportErr == [ok |-> FALSE, response |-> [status |-> 0, body |-> CHOOSE b \in Bodies : ~b.readable]]

\* the network of a run: the transport fails on the first `fails` attempts, then
\* the server answers `response`
NetSend(fails, response, attempt) ==
    IF attempt <= fails THEN TransportErr ELSE [ok |-> TRUE, response |-> response]

\* the closure post_request and get_request hand to with_retry: one send().await
SendClosureErrorForStatus(fails, response, attempt) ==
    LET r == NetSend(fails, response, attempt)
    IN  IF r.ok /\ ~IsSuccess(r.response.status) THEN TransportErr ELSE r

SendClosure(fails, response, attempt) == NetSend(fails, response, attempt)

\* with_retry: runs the closure until it returns Ok or the attempts are used up
RECURSIVE RetryFrom(_, _, _)
RetryFrom(fails, response, attempt) ==
    LET r == SendClosure(fails, response, attempt)
    IN  IF r.ok \/ attempt >= MaxAttempts
        THEN [ok |-> r.ok, response |-> r.response, attempts |-> attempt]
        ELSE RetryFrom(fails, response, attempt + 1)

with_retry(fails, response) == RetryFrom(fails, response, 1)

Take(s, n) == SubSeq(s, 1, Min(n, Len(s)))

ReqResult(kind, value, status, message, url, request, attempts) ==
    [kind |-> kind, value |-> value, status |-> status, message |-> message,
     url |-> url, request |-> request, attempts |-> attempts]

ReqErr(kind, attempts) == ReqResult(kind, "", 0, <<>>, <<>>, <<>>, attempts)

handle_responseBodyBeforeStatus(response, url, request_str, attempts) ==
    IF response.body.readable /\ response.body.as_r.valid
    THEN ReqResult("Ok", response.body.as_r.v, 0, <<>>, <<>>, <<>>, attempts)
    ELSE IF ~IsSuccess(response.status)
    THEN LET error_text == IF response.body.readable THEN response.body.text
                           ELSE <<"Failed to read error response">>
             parsed == IF response.body.readable THEN response.body.as_error ELSE NotJson
             error_message == IF parsed.valid
                              THEN (IF parsed.message.some THEN parsed.message.v
                                    ELSE parsed.error)
                              ELSE error_text
             abr_request == IF request_str.some THEN Take(request_str.v, AbrLimit)
                            ELSE <<>>
         IN  ReqResult("ServerError", "", response.status, error_message, url,
                       abr_request, attempts)
    ELSE ReqErr("DeserializationError", attempts)

handle_responseCutsErrorText(response, url, request_str, attempts) ==
    IF ~IsSuccess(response.status)
    THEN LET error_text == IF response.body.readable
                           THEN Take(response.body.text, AbrLimit)
                           ELSE <<"Failed to read error response">>
             parsed == IF response.body.readable THEN response.body.as_error ELSE NotJson
             error_message == IF parsed.valid
                              THEN (IF parsed.message.some THEN parsed.message.v
                                    ELSE parsed.error)
                              ELSE error_text
             abr_request == IF request_str.some THEN Take(request_str.v, AbrLimit)
                            ELSE <<>>
         IN  ReqResult("ServerError", "", response.status, error_message, url,
                       abr_request, attempts)
    ELSE IF response.body.readable /\ response.body.as_r.valid
    THEN ReqResult("Ok", response.body.as_r.v, 0, <<>>, <<>>, <<>>, attempts)
    ELSE ReqErr("DeserializationError", attempts)

handle_response(response, url, request_str, attempts) ==
    IF ~IsSuccess(response.status)
    THEN LET error_text == IF response.body.readable THEN response.body.text
                           ELSE <<"Failed to read error response">>
             parsed == IF response.body.readable THEN response.body.as_error ELSE NotJson
             error_message == IF parsed.valid
                              THEN (IF parsed.message.some THEN parsed.message.v
                                    ELSE parsed.error)
                              ELSE error_text
             abr_request == IF request_str.some THEN Take(request_str.v, AbrLimit)
                            ELSE <<>>
         IN  ReqResult("ServerError", "", response.status, error_message, url,
                       abr_request, attempts)
    ELSE IF response.body.readable /\ response.body.as_r.valid
    THEN ReqResult("Ok", response.body.as_r.v, 0, <<>>, <<>>, <<>>, attempts)
    ELSE ReqErr("DeserializationError", attempts)

\* bearer tokens: HeaderValue::from_str rejects a token with a control character
Tokens == {"tok", "bad\ntok"}
HeaderValueOk(token) == token = "tok"

post_requestNetworkErrorAsOk(base_url, endpoint, body, bearer_token, fails, response) ==
    LET url == <<base_url, endpoint>>
        r == with_retry(fails, response)
    IN  IF bearer_token.some /\ ~HeaderValueOk(bearer_token.v)
        THEN ReqErr("SerializeError", 0)
        ELSE handle_response(r.response, url, Some(body), r.attempts)

\* post_request: body is the JSON text of the request body
post_request(base_url, endpoint, body, bearer_token, fails, response) ==
    LET url == <<base_url, endpoint>>
        r == with_retry(fails, response)
    IN  IF bearer_token.some /\ ~HeaderValueOk(bearer_token.v)
        THEN ReqErr("SerializeError", 0)
        ELSE IF ~r.ok THEN ReqErr("NetworkError", r.attempts)
        ELSE handle_response(r.response, url, Some(body), r.attempts)

\* queries: serde_qs::to_string gives the query string, or fails
NoQuery == [some |-> FALSE, v |-> [valid |-> TRUE, qs |-> <<>>]]
Queries == {NoQuery, Some([valid |-> TRUE, qs |-> <<"a", "=", "1">>]),
            Some([valid |-> TRUE, qs |-> LongText]),
            Some([valid |-> FALSE, qs |-> <<>>])}

get_request(base_url, endpoint, query, bearer_token, fails, response) ==
    LET query_str == IF query.some THEN Some(query.v.qs) ELSE [some |-> FALSE, v |-> <<>>]
        url == IF query_str.some THEN <<base_url, endpoint, "?", query_str.v>>
               ELSE <<base_url, endpoint>>
        r == with_retry(fails, response)
    IN  IF query.some /\ ~query.v.valid THEN ReqErr("SerializeError", 0)
        ELSE IF bearer_token.some /\ ~HeaderValueOk(bearer_token.v)
        THEN ReqErr("SerializeError", 0)
        ELSE IF ~r.ok THEN ReqErr("NetworkError", r.attempts)
        ELSE handle_response(r.response, url, query_str, r.attempts)

\* request bodies as JSON text: short, exactly AbrLimit and longer than AbrLimit
RequestTexts == { <<"{", "}">>,
                  [i \in 1..AbrLimit |-> "x"],
                  [i \in 1..(AbrLimit + 1) |-> IF i > AbrLimit THEN "y" ELSE "x"] }

NoRqCall == [op |-> "none", body |-> <<>>, query |-> NoQuery, token |-> None]

InitNet ==
    /\ net_fails \in 0..(MaxAttempts + 1)
    /\ server_response \in Responses

InitNetIdle ==
    /\ net_fails = 0
    /\ server_response = CHOOSE r \in Responses : r.status = 200 /\ r.body.text = <<"proof_json">>

InitRqIdle ==
    /\ rq_call = NoRqCall
    /\ rq_attempts = 0
    /\ rq_result = ReqErr("none", 0)

\* a client of the request layer posts a body
PostRequest ==
    /\ \E body \in RequestTexts, token \in {None} \cup {Some(t) : t \in Tokens} :
         LET r == post_request("http://host", "/endpoint", body, token,
                               net_fails, server_response)
         IN  /\ rq_call' = [op |-> "post_request", body |-> body, query |-> NoQuery,
                            token |-> token]
             /\ rq_attempts' = r.attempts
             /\ rq_result' = r
    /\ UNCHANGED <<txVars, netVars, bpVars, syncVars, cdVars>>

\* a client of the request layer gets an endpoint, with or without a query
GetRequest ==
    /\ \E query \in Queries, token \in {None} \cup {Some(t) : t \in Tokens} :
         LET r == get_request("http://host", "/endpoint", query, token,
                              net_fails, server_response)
         IN  /\ rq_call' = [op |-> "get_request", body |-> <<>>, query |-> query,
                            token |-> token]
             /\ rq_attempts' = r.attempts
             /\ rq_result' = r
    /\ UNCHANGED <<txVars, netVars, bpVars, syncVars, cdVars>>

(***************************************************************************)
(* Balance prover client (client-sdk/src/external_api/balance_prover.rs)   *)
(***************************************************************************)
Witnesses == {"w1", "w2"}
Proofs == {"pA", "pB"}
PrevProofs == {None} \cup {Some(p) : p \in Proofs}
BaseUrl == "http://prover"

\* get_bearer_token: reads the token from the environment at the call
get_bearer_tokenDefaultsEmpty(env) ==
    IF env.some THEN [ok |-> TRUE, v |-> env.v] ELSE [ok |-> TRUE, v |-> ""]

get_bearer_token(env) ==
    IF env.some THEN [ok |-> TRUE, v |-> env.v] ELSE [ok |-> FALSE, v |-> ""]

PostStageRetriesFailure(base_url, endpoint, request, env, fails, response) ==
    LET token == get_bearer_token(env)
        first == post_request(base_url, endpoint, <<request>>, Some(token.v), fails, response)
        second == post_request(base_url, endpoint, <<request>>, Some(token.v), fails, response)
    IN  IF ~token.ok
        THEN [endpoint |-> endpoint, request |-> request,
              result |-> ReqErr("EnvError", 0)]
        ELSE [endpoint |-> endpoint, request |-> request,
              result |-> IF first.kind = "Ok" THEN first
                         ELSE [second EXCEPT !.attempts = first.attempts + second.attempts]]

\* the shared tail of the six stage operations: the token is read while the
\* arguments of post_request are built, the request is posted once and the
\* proof of the response is returned
PostStage(base_url, endpoint, request, env, fails, response) ==
    LET token == get_bearer_token(env)
    IN  IF ~token.ok
        THEN [endpoint |-> endpoint, request |-> request,
              result |-> ReqErr("EnvError", 0)]
        ELSE [endpoint |-> endpoint, request |-> request,
              result |-> post_request(base_url, endpoint, <<request>>, Some(token.v),
                                      fails, response)]

prove_spent(base_url, spent_witness, env, fails, response) ==
    PostStage(base_url, "/balance-prover/prove-spent",
              [spent_witness |-> spent_witness], env, fails, response)

prove_sendSwapsProofs(base_url, pubkey, tx_witnes, update_witness, spent_proof, prev_proof, env, fails, response) ==
    PostStage(base_url, "/balance-prover/prove-send",
              [pubkey |-> pubkey, tx_witnes |-> tx_witnes,
               update_witness |-> update_witness,
               spent_proof |-> IF prev_proof.some THEN prev_proof.v ELSE spent_proof,
               prev_proof |-> Some(spent_proof)],
              env, fails, response)

prove_send(base_url, pubkey, tx_witnes, update_witness, spent_proof, prev_proof, env, fails, response) ==
    PostStage(base_url, "/balance-prover/prove-send",
              [pubkey |-> pubkey, tx_witnes |-> tx_witnes,
               update_witness |-> update_witness, spent_proof |-> spent_proof,
               prev_proof |-> prev_proof],
              env, fails, response)

prove_updateDropsPrevProof(base_url, pubkey, update_witness, prev_proof, env, fails, response) ==
    PostStage(base_url, "/balance-prover/prove-update",
              [pubkey |-> pubkey, update_witness |-> update_witness, prev_proof |-> None],
              env, fails, response)

prove_update(base_url, pubkey, update_witness, prev_proof, env, fails, response) ==
    PostStage(base_url, "/balance-prover/prove-update",
              [pubkey |-> pubkey, update_witness |-> update_witness,
               prev_proof |-> prev_proof],
              env, fails, response)

prove_receive_transfer(base_url, pubkey, receive_transfer_witness, prev_proof, env, fails, response) ==
    PostStage(base_url, "/balance-prover/prove-receive-transfer",
              [pubkey |-> pubkey, receive_transfer_witness |-> receive_transfer_witness,
               prev_proof |-> prev_proof],
              env, fails, response)

prove_receive_deposit(base_url, pubkey, receive_deposit_witness, prev_proof, env, fails, response) ==
    PostStage(base_url, "/balance-prover/prove-receive-deposit",
              [pubkey |-> pubkey, receive_deposit_witness |-> receive_deposit_witness,
               prev_proof |-> prev_proof],
              env, fails, response)

prove_single_withdrawal(base_url, withdrawal_witness, env, fails, response) ==
    PostStage(base_url, "/balance-prover/prove-single-withdrawal",
              [withdrawal_witness |-> withdrawal_witness], env, fails, response)

\* the stages whose operation takes a prev_proof
PrevProofStages == {"send", "update", "receive_transfer", "receive_deposit"}

NoBpCall == [stage |-> "none", witness |-> "", spent_proof |-> "", prev_proof |-> None]
NoRequest == [endpoint |-> "none", request |-> [none |-> TRUE]]

InitBpIdle ==
    /\ bearer_env = Some("tok")
    /\ bp_call = NoBpCall
    /\ bp_request = NoRequest
    /\ bp_result = ReqErr("none", 0)

\* what a stage call leaves: the arguments, the request built and the result
BpDone(stage, witness, spent_proof, prev_proof, r) ==
    /\ bp_call' = [stage |-> stage, witness |-> witness, spent_proof |-> spent_proof,
                   prev_proof |-> prev_proof]
    /\ bp_request' = [endpoint |-> r.endpoint, request |-> r.request]
    /\ bp_result' = r.result
    /\ UNCHANGED <<bearer_env, txVars, netVars, rqVars, syncVars, cdVars>>

ProveSpent ==
    \E w \in Witnesses :
        BpDone("spent", w, "", None,
               prove_spent(BaseUrl, w, bearer_env, net_fails, server_response))

ProveSend ==
    \E w \in Witnesses, sp \in Proofs, prev \in PrevProofs :
        BpDone("send", w, sp, prev,
               prove_send(BaseUrl, "pk", w, "uw", sp, prev, bearer_env, net_fails,
                          server_response))

ProveUpdate ==
    \E w \in Witnesses, prev \in PrevProofs :
        BpDone("update", w, "", prev,
               prove_update(BaseUrl, "pk", w, prev, bearer_env, net_fails,
                            server_response))

ProveReceiveTransfer ==
    \E w \in Witnesses, prev \in PrevProofs :
        BpDone("receive_transfer", w, "", prev,
               prove_receive_transfer(BaseUrl, "pk", w, prev, bearer_env, net_fails,
                                      server_response))

ProveReceiveDeposit ==
    \E w \in Witnesses, prev \in PrevProofs :
        BpDone("receive_deposit", w, "", prev,
               prove_receive_deposit(BaseUrl, "pk", w, prev, bearer_env, net_fails,
                                     server_response))

ProveSingleWithdrawal ==
    \E w \in Witnesses :
        BpDone("withdrawal", w, "", None,
               prove_single_withdrawal(BaseUrl, w, bearer_env, net_fails,
                                       server_response))

\* the process sets or removes BALANCE_PROVER_BEARER_TOKEN between two calls
SetBearerToken ==
    /\ \E e \in {None} \cup {Some(t) : t \in Tokens} :
           e # bearer_env /\ bearer_env' = e
    /\ UNCHANGED <<bp_call, bp_request, bp_result>>
    /\ UNCHANGED <<txVars, netVars, rqVars, syncVars, cdVars>>

(***************************************************************************)
(* Synchronization run over one key: the driver of the stage operations    *)
(***************************************************************************)
\* the proof the prover returns to the k-th request of a run
ProofName(k) == "p" \o ToString(k)

\* a 200 response whose body is { proof: p }
ProofResponse(p) ==
    [status |-> 200,
     body |-> [text |-> <<"proof_json">>, readable |-> TRUE, as_error |-> NotJson,
               as_r |-> [valid |-> TRUE, v |-> p]]]

\* a 500 response with a structured error body
RejectResponse ==
    [status |-> 500,
     body |-> [text |-> <<"error_json">>, readable |-> TRUE,
               as_error |-> [valid |-> TRUE, error |-> <<"E">>, message |-> NoMessage],
               as_r |-> NotR]]

\* the fixed stage order: the stages that may follow the last applied one
NextStages(c) ==
    CASE c = "none" -> {"spent"}
      [] c = "spent" -> {"send"}
      [] c = "send" -> {"update"}
      [] c \in {"update", "receive_transfer", "receive_deposit"} ->
            {"receive_transfer", "receive_deposit", "withdrawal"}
      [] OTHER -> {}

InitSyncIdle ==
    /\ cursor = "none"
    /\ tip = None
    /\ sync_log = <<>>

\* the stage operation the driver calls for a stage, with the tip as prev_proof
StageCall(stage, w, fails, response) ==
    CASE stage = "spent" ->
            prove_spent(BaseUrl, w, bearer_env, fails, response)
      [] stage = "send" ->
            prove_send(BaseUrl, "pk", w, "uw", tip.v, tip, bearer_env, fails, response)
      [] stage = "update" ->
            prove_update(BaseUrl, "pk", w, tip, bearer_env, fails, response)
      [] stage = "receive_transfer" ->
            prove_receive_transfer(BaseUrl, "pk", w, tip, bearer_env, fails, response)
      [] stage = "receive_deposit" ->
            prove_receive_deposit(BaseUrl, "pk", w, tip, bearer_env, fails, response)
      [] OTHER ->
            prove_single_withdrawal(BaseUrl, w, bearer_env, fails, response)

\* one stage of the run: the driver submits the next stage and, when the prover
\* returns a proof, replaces the tip with it
SyncStage(stage) ==
    /\ Len(sync_log) < MaxSyncCalls
    /\ stage \in NextStages(cursor)
    /\ \E outcome \in {"proved", "rejected", "down"} :
         LET fails == IF outcome = "down" THEN MaxAttempts ELSE 0
             response == IF outcome = "proved" THEN ProofResponse(ProofName(Len(sync_log) + 1))
                         ELSE RejectResponse
             r == StageCall(stage, "w1", fails, response)
             ok == r.result.kind = "Ok"
         IN  /\ sync_log' = Append(sync_log,
                                   [stage |-> stage, request |-> r.request, ok |-> ok,
                                    proof |-> r.result.value, tip_before |-> tip])
             /\ tip' = IF ok THEN Some(r.result.value) ELSE tip
             /\ cursor' = IF ok THEN stage ELSE cursor
    /\ UNCHANGED <<txVars, netVars, rqVars, bpVars, cdVars>>

SyncSpent == SyncStage("spent")
SyncSend == SyncStage("send")
SyncUpdate == SyncStage("update")
SyncReceiveTransfer == SyncStage("receive_transfer")
SyncReceiveDeposit == SyncStage("receive_deposit")
SyncWithdrawal == SyncStage("withdrawal")

(***************************************************************************)
(* Compressed proof codec (withdrawal-server/src/api/encode.rs)            *)
(*                                                                         *)
(* A buffer is a sequence of 32-bit words: write_u32 writes one word and a  *)
(* field element, a 64-bit value, is written as its two limbs, low first.   *)
(* The proof system is the library's, scaled down: a proof holds one        *)
(* opening and one query round per query index; the query indices are the   *)
(* Fiat-Shamir challenges drawn from the circuit digest, the public inputs  *)
(* and the opening.                                                         *)
(***************************************************************************)
\* field elements, as <<low limb, high limb>>
Fields == {<<0, 0>>, <<1, 0>>, <<2, 1>>}
\* circuit digests of the verifier data
Digests == {1, 2}

RECURSIVE SumLimbs(_)
SumLimbs(v) == IF v = <<>> THEN 0 ELSE Head(v)[1] + Head(v)[2] + SumLimbs(Tail(v))

\* the query indices of a proof: one index of the evaluation domain per query round
QueryIndices(digest, public_inputs, opening) ==
    LET challenge == digest + SumLimbs(public_inputs) + opening[1] + opening[2]
    IN  [j \in 1..NumQueryRounds |-> (challenge * j + j - 1) % LdeSize]

\* the query round a prover opens at an index
Leaf(opening, index) == <<(opening[1] + index) % 3, index % 2>>

\* a proof of the circuit with this digest
ProverProof(digest, public_inputs, opening) ==
    LET indices == QueryIndices(digest, public_inputs, opening)
    IN  [public_inputs |-> public_inputs,
         proof |-> [opening |-> opening,
                    rounds |-> [j \in 1..NumQueryRounds |-> Leaf(opening, indices[j])]]]

NoProof == [public_inputs |-> <<>>, proof |-> [opening |-> <<0, 0>>, rounds |-> <<>>]]

FirstPos(s, x) == CHOOSE i \in 1..Len(s) : s[i] = x /\ \A k \in 1..(i - 1) : s[k] # x

RECURSIVE SortedSeq(_)
SortedSeq(S) ==
    IF S = {} THEN <<>>
    ELSE LET m == CHOOSE x \in S : \A y \in S : x <= y
         IN  <<m>> \o SortedSeq(S \ {m})

\* ProofWithPublicInputs::compress: keeps one query round per distinct query index
compress(proof, digest) ==
    LET indices == QueryIndices(digest, proof.public_inputs, proof.proof.opening)
    IN  [public_inputs |-> proof.public_inputs,
         proof |-> [opening |-> proof.proof.opening,
                    indices |-> indices,
                    trees |-> [x \in {indices[j] : j \in 1..Len(indices)} |->
                                 proof.proof.rounds[FirstPos(indices, x)]]]]

\* CompressedProofWithPublicInputs::decompress: draws the query indices again and
\* looks each one up; the lookup of an index the proof does not hold panics
decompress(compressed, digest) ==
    LET indices == QueryIndices(digest, compressed.public_inputs, compressed.proof.opening)
    IN  IF \E j \in 1..Len(indices) : indices[j] \notin DOMAIN compressed.proof.trees
        THEN [kind |-> "Panic", proof |-> NoProof]
        ELSE [kind |-> "Ok",
              proof |-> [public_inputs |-> compressed.public_inputs,
                         proof |-> [opening |-> compressed.proof.opening,
                                    rounds |-> [j \in 1..Len(indices) |->
                                                  compressed.proof.trees[indices[j]]]]]]

\* Write::write_u32, write_field_vec, write_compressed_proof
write_u32(n) == <<n>>

RECURSIVE write_field_vec(_)
write_field_vec(v) ==
    IF v = <<>> THEN <<>> ELSE <<Head(v)[1], Head(v)[2]>> \o write_field_vec(Tail(v))

write_compressed_proof(proof) ==
    LET keys == SortedSeq(DOMAIN proof.trees)
    IN  write_field_vec(<<proof.opening>>) \o proof.indices
          \o write_field_vec([k \in 1..Len(keys) |-> proof.trees[keys[k]]])

\* Read::read_u32, read_field_vec, read_compressed_proof: each reads from the front
\* of what is left of the buffer and fails when the buffer runs out
ReadFail == [ok |-> FALSE, v |-> <<>>, rest |-> <<>>]

read_u32(buf) ==
    IF Len(buf) < 1 THEN ReadFail ELSE [ok |-> TRUE, v |-> buf[1], rest |-> Tail(buf)]

RECURSIVE read_u32_vec(_, _)
read_u32_vec(buf, n) ==
    IF n = 0 THEN [ok |-> TRUE, v |-> <<>>, rest |-> buf]
    ELSE IF Len(buf) < 1 THEN ReadFail
    ELSE LET more == read_u32_vec(Tail(buf), n - 1)
         IN  IF ~more.ok THEN ReadFail
             ELSE [ok |-> TRUE, v |-> <<buf[1]>> \o more.v, rest |-> more.rest]

RECURSIVE read_field_vec(_, _)
read_field_vec(buf, n) ==
    IF n = 0 THEN [ok |-> TRUE, v |-> <<>>, rest |-> buf]
    ELSE IF Len(buf) < 2 THEN ReadFail
    ELSE LET more == read_field_vec(SubSeq(buf, 3, Len(buf)), n - 1)
         IN  IF ~more.ok THEN ReadFail
             ELSE [ok |-> TRUE, v |-> <<(<<buf[1], buf[2]>>)>> \o more.v,
                   rest |-> more.rest]

read_compressed_proof(buf) ==
    LET opening == read_field_vec(buf, 1)
        indices == read_u32_vec(opening.rest, NumQueryRounds)
        keys == SortedSeq({indices.v[j] : j \in 1..Len(indices.v)})
        rounds == read_field_vec(indices.rest, Len(keys))
    IN  IF ~opening.ok THEN ReadFail
        ELSE IF ~indices.ok THEN ReadFail
        ELSE IF ~rounds.ok THEN ReadFail
        ELSE [ok |-> TRUE,
              v |-> [opening |-> opening.v[1], indices |-> indices.v,
                     trees |-> [x \in {keys[k] : k \in 1..Len(keys)} |->
                                  rounds.v[FirstPos(keys, x)]]],
              rest |-> rounds.rest]

compressed_proof_to_bytesNoPrefix(compressed) ==
    write_field_vec(compressed.public_inputs) \o write_compressed_proof(compressed.proof)

compressed_proof_to_bytes(compressed) ==
    write_u32(Len(compressed.public_inputs))
      \o write_field_vec(compressed.public_inputs)
      \o write_compressed_proof(compressed.proof)

compressed_proof_from_bytes(bytes) ==
    LET public_inputs_len == read_u32(bytes)
        public_inputs == read_field_vec(public_inputs_len.rest, public_inputs_len.v)
        proof == read_compressed_proof(public_inputs.rest)
    IN  IF ~public_inputs_len.ok THEN [ok |-> FALSE, v |-> NoProof]
        ELSE IF ~public_inputs.ok THEN [ok |-> FALSE, v |-> NoProof]
        ELSE IF ~proof.ok THEN [ok |-> FALSE, v |-> NoProof]
        ELSE [ok |-> TRUE, v |-> [public_inputs |-> public_inputs.v, proof |-> proof.v]]

encode_plonky2_proof(proof, digest) ==
    compressed_proof_to_bytes(compress(proof, digest))

decode_plonky2_proof(encoded_proof, digest) ==
    LET compressed == compressed_proof_from_bytes(encoded_proof)
    IN  IF ~compressed.ok THEN [kind |-> "Err", proof |-> NoProof]
        ELSE decompress(compressed.v, digest)

NoCdCall == [op |-> "none", digest |-> 0]

InitCdIdle ==
    /\ cd_proof = NoProof
    /\ cd_digest = 0
    /\ cd_bytes = <<>>
    /\ cd_tampered = FALSE
    /\ cd_call = NoCdCall
    /\ cd_result = [kind |-> "none", proof |-> NoProof]

InitCd ==
    /\ cd_digest \in Digests
    /\ cd_proof \in {ProverProof(cd_digest, pis, opening) :
                       pis \in SeqsUpTo(Fields, MaxPis), opening \in Fields}
    /\ cd_bytes = <<>>
    /\ cd_tampered = FALSE
    /\ cd_call = NoCdCall
    /\ cd_result = [kind |-> "none", proof |-> NoProof]

\* the holder of a proof encodes it with the verifier data of its circuit
Encode ==
    /\ cd_call.op = "none"
    /\ cd_bytes' = encode_plonky2_proof(cd_proof, cd_digest)
    /\ cd_call' = [op |-> "encode", digest |-> cd_digest]
    /\ UNCHANGED <<cd_proof, cd_digest, cd_tampered, cd_result>>
    /\ UNCHANGED <<txVars, netVars, rqVars, bpVars, syncVars>>

\* the encoded bytes reach the decoder with another length prefix
TamperPrefix ==
    /\ cd_call.op = "encode"
    /\ \E n \in (0..(MaxPis + 1)) \ {cd_bytes[1]} :
         cd_bytes' = [cd_bytes EXCEPT ![1] = n]
    /\ cd_tampered' = TRUE
    /\ cd_call' = [op |-> "tamper", digest |-> cd_digest]
    /\ UNCHANGED <<cd_proof, cd_digest, cd_result>>
    /\ UNCHANGED <<txVars, netVars, rqVars, bpVars, syncVars>>

\* a receiver decodes the bytes with the verifier data it holds
Decode ==
    /\ cd_call.op \in {"encode", "tamper"}
    /\ \E digest \in Digests :
         /\ cd_result' = decode_plonky2_proof(cd_bytes, digest)
         /\ cd_call' = [op |-> "decode", digest |-> digest]
    /\ UNCHANGED <<cd_proof, cd_digest, cd_bytes, cd_tampered>>
    /\ UNCHANGED <<txVars, netVars, rqVars, bpVars, syncVars>>

(***************************************************************************)
(* Specifications                                                          *)
(***************************************************************************)
InitBatch ==
    /\ transfers \in SeqsUpTo(Transfers, NUM_TRANSFERS_IN_TX + 1)
    /\ InitTxIdle
    /\ InitNetIdle
    /\ InitRqIdle
    /\ InitBpIdle
    /\ InitSyncIdle
    /\ InitCdIdle

NextBatch ==
    \/ GenerateTransferTree
    \/ SendTxRequest

SpecBatch == InitBatch /\ [][NextBatch]_vars

InitTx ==
    /\ transfers \in {<<>>, <<"t1">>, <<"t2", "t1">>,
                      [i \in 1..(NUM_TRANSFERS_IN_TX + 1) |-> "t1"]}
    /\ InitTxIdle
    /\ InitNetIdle
    /\ InitRqIdle
    /\ InitBpIdle
    /\ InitSyncIdle
    /\ InitCdIdle

NextTx ==
    \/ SendTxRequest
    \/ QueryProposal
    \/ FinalizeTx

SpecTx == InitTx /\ [][NextTx]_vars

InitRetry ==
    /\ transfers = <<>>
    /\ InitTxIdle
    /\ InitNet
    /\ InitRqIdle
    /\ InitBpIdle
    /\ InitSyncIdle
    /\ InitCdIdle

NextRetry ==
    \/ PostRequest
    \/ GetRequest

SpecRetry == InitRetry /\ [][NextRetry]_vars

InitClient ==
    /\ transfers = <<>>
    /\ InitTxIdle
    /\ InitNet
    /\ InitRqIdle
    /\ bearer_env \in {None} \cup {Some(t) : t \in Tokens}
    /\ bp_call = NoBpCall
    /\ bp_request = NoRequest
    /\ bp_result = ReqErr("none", 0)
    /\ InitSyncIdle
    /\ InitCdIdle

NextClient ==
    \/ ProveSpent
    \/ ProveSend
    \/ ProveUpdate
    \/ ProveReceiveTransfer
    \/ ProveReceiveDeposit
    \/ ProveSingleWithdrawal

SpecClient == InitClient /\ [][NextClient]_vars

\* the client in a process whose environment changes between the calls
NextAuth ==
    \/ NextClient
    \/ SetBearerToken

SpecAuth == InitClient /\ [][NextAuth]_vars

InitSync ==
    /\ transfers = <<>>
    /\ InitTxIdle
    /\ InitNetIdle
    /\ InitRqIdle
    /\ InitBpIdle
    /\ InitSyncIdle
    /\ InitCdIdle

NextSync ==
    \/ SyncSpent
    \/ SyncSend
    \/ SyncUpdate
    \/ SyncReceiveTransfer
    \/ SyncReceiveDeposit
    \/ SyncWithdrawal

SpecSync == InitSync /\ [][NextSync]_vars

InitCodec ==
    /\ transfers = <<>>
    /\ InitTxIdle
    /\ InitNetIdle
    /\ InitRqIdle
    /\ InitBpIdle
    /\ InitSyncIdle
    /\ InitCd

NextCodec ==
    \/ Encode
    \/ TamperPrefix
    \/ Decode

SpecCodec == InitCodec /\ [][NextCodec]_vars

(***************************************************************************)
(* Properties of transfer batching and tx submission                       *)
(***************************************************************************)
\* C1: for an input of k <= N transfers, the tree generate_transfer_tree builds has
\* exactly N leaves: leaves 1..k are the input in input order and leaves k+1..N are
\* the default transfer.
C1_PaddedTreeLeaves ==
    (transfer_tree.built /\ Len(transfers) <= NUM_TRANSFERS_IN_TX) =>
        /\ Len(transfer_tree.leaves) = NUM_TRANSFERS_IN_TX
        /\ \A i \in 1..Len(transfers) : transfer_tree.leaves[i] = transfers[i]
        /\ \A i \in (Len(transfers) + 1)..NUM_TRANSFERS_IN_TX :
              transfer_tree.leaves[i] = DefaultTransfer

\* C1 witness: generate_transfer_tree has padded two distinct transfers
C1_Witness ==
    /\ tx_call.op = "generate_transfer_tree"
    /\ transfers = <<"t2", "t1">>
    /\ transfer_tree.built
    /\ Len(transfer_tree.leaves) = NUM_TRANSFERS_IN_TX

\* C2: an input of more than N transfers fails before any tree construction: no
\* tree is built, no leaf is pushed and the call does not succeed, whichever entry
\* point (send_tx_request or generate_transfer_tree) received it.
C2_OverlongInputBuildsNoTree ==
    (tx_call.op # "none" /\ Len(transfers) > NUM_TRANSFERS_IN_TX) =>
        /\ ~transfer_tree.built
        /\ transfer_tree.leaves = <<>>
        /\ ~tx_result.ok

\* C5: finalize_tx for a transaction no send_tx_request has succeeded for fails (with
\* a sequencing error) and issues no block builder request.
C5_FinalizeNeedsRequestedMemo ==
    (tx_call.op = "finalize_tx" /\ tx_call.memo \notin requested) =>
        /\ bb_calls = <<>>
        /\ ~tx_result.ok

\* C13: query_proposal keeps three outcomes apart. When its inputs convert and
\* the block builder is reached, no proposal yet is Ok(None), a valid proposal is
\* Ok(Some(proposal)) and an invalid proposal is an error; one call makes one
\* proposal query, none when an input fails to convert.
C13_ProposalOutcomesDistinct ==
    (tx_call.op = "query_proposal") =>
        /\ Len(bb_calls) <= 1
        /\ (tx_call.key_ok /\ tx_call.js_ok) =>
               /\ Len(bb_calls) = 1
               /\ bb_calls[1].op = "query_proposal" /\ bb_calls[1].tx = tx_call.tx
        /\ (tx_call.key_ok /\ tx_call.js_ok /\ tx_call.net = "ok") =>
               /\ tx_call.answer = "not_found" =>
                      (tx_result.ok /\ ~tx_result.value.some)
               /\ tx_call.answer = "valid" =>
                      /\ tx_result.ok /\ tx_result.value.some
                      /\ tx_result.value.v = JsBlockProposalFrom(tx_call.tx)
               /\ tx_call.answer = "invalid" => ~tx_result.ok
        /\ (tx_result.ok /\ ~tx_result.value.some) => tx_call.answer = "not_found"

\* C13 witness: a poll that reached the block builder before the proposal was
\* there returned Ok(None) after one query
C13_Witness ==
    /\ tx_call.op = "query_proposal"
    /\ tx_call.answer = "not_found"
    /\ tx_result.ok /\ ~tx_result.value.some
    /\ Len(bb_calls) = 1

(***************************************************************************)
(* Properties of the retrying request layer                                *)
(***************************************************************************)
\* the last request got as far as the network
RequestSent == rq_call.op # "none" /\ rq_result.kind # "SerializeError"

\* C3: a non-2xx response is never retried: against a server that answers a fixed
\* 4xx/5xx status the request makes exactly one network call (one more than the
\* transport failures before the answer) and returns ServerError::ServerError.
C3_ErrorStatusNotRetried ==
    (RequestSent /\ net_fails < MaxAttempts /\ ~IsSuccess(server_response.status)) =>
        /\ rq_attempts = net_fails + 1
        /\ net_fails = 0 => rq_attempts = 1
        /\ rq_result.kind = "ServerError"
        /\ rq_result.status = server_response.status

\* C3 witness: a post against a server that always answers 404 made one call
C3_Witness ==
    /\ rq_call.op = "post_request"
    /\ net_fails = 0
    /\ server_response.status = 404
    /\ rq_attempts = 1
    /\ rq_result.kind = "ServerError"

\* C4: when the transport fails on attempts 1..m-1 and gets through on attempt
\* m <= MaxAttempts, the request returns what that attempt's response gives (the
\* value of a well-formed 2xx response); when it fails on every attempt the request
\* returns NetworkError with no value; the attempts never exceed MaxAttempts.
C4_RetryUntilTransportSucceeds ==
    RequestSent =>
        /\ rq_attempts <= MaxAttempts
        /\ net_fails < MaxAttempts =>
              /\ rq_attempts = net_fails + 1
              /\ rq_result.kind \in {"Ok", "ServerError", "DeserializationError"}
              /\ (IsSuccess(server_response.status) /\ server_response.body.readable
                     /\ server_response.body.as_r.valid) =>
                    (rq_result.kind = "Ok"
                       /\ rq_result.value = server_response.body.as_r.v)
        /\ net_fails >= MaxAttempts =>
              /\ rq_attempts = MaxAttempts
              /\ rq_result.kind = "NetworkError"
              /\ rq_result.value = ""

\* C4 witness: a get that failed on every attempt but the last and then succeeded
C4_Witness ==
    /\ rq_call.op = "get_request"
    /\ net_fails >= 1
    /\ net_fails = MaxAttempts - 1
    /\ rq_attempts = MaxAttempts
    /\ rq_result.kind = "Ok"

\* C12: the message of the error for a non-2xx response is the message field of
\* the body when the body parses as {error, message?} with a message, its error
\* field when it parses without one, and otherwise the whole response text, not
\* cut; when the text of the response cannot be read it is the fixed text that
\* stands for it.
C12_ErrorMessageSelection ==
    (RequestSent /\ net_fails < MaxAttempts /\ ~IsSuccess(server_response.status)) =>
        LET b == server_response.body
            m == rq_result.message
        IN  /\ (b.readable /\ b.as_error.valid /\ b.as_error.message.some) =>
                   m = b.as_error.message.v
            /\ (b.readable /\ b.as_error.valid /\ ~b.as_error.message.some) =>
                   m = b.as_error.error
            /\ (b.readable /\ ~b.as_error.valid) =>
                   (m = b.text /\ Len(m) = Len(b.text))
            /\ ~b.readable => m = <<"Failed to read error response">>

\* C12 witness: a 404 whose body is a text longer than AbrLimit that is not an
\* ErrorResponse, answered to a post whose own request text was cut to AbrLimit
C12_Witness ==
    /\ rq_call.op = "post_request"
    /\ server_response.status = 404
    /\ server_response.body.text = LongText
    /\ rq_result.kind = "ServerError"
    /\ rq_result.message = LongText
    /\ Len(rq_result.message) = AbrLimit + 1
    /\ Len(rq_call.body) > AbrLimit
    /\ Len(rq_result.request) = AbrLimit

\* the url and the request text of the last request, as its inputs give them
RequestUrl ==
    IF rq_call.op = "get_request" /\ rq_call.query.some
    THEN <<"http://host", "/endpoint", "?", rq_call.query.v.qs>>
    ELSE <<"http://host", "/endpoint">>

RequestText ==
    IF rq_call.op = "post_request" THEN rq_call.body
    ELSE IF rq_call.query.some THEN rq_call.query.v.qs ELSE <<>>

\* C15: once a response is received its status alone decides the kind of result.
\* A non-2xx response gives ServerError::ServerError with the status, the url and
\* the first AbrLimit characters of the request text, also when its body would
\* deserialize as the expected type; a 2xx response gives Ok(value) when its body
\* deserializes and DeserializationError when it does not.
C15_StatusDecidesOutcome ==
    (RequestSent /\ net_fails < MaxAttempts) =>
        IF ~IsSuccess(server_response.status)
        THEN /\ rq_result.kind = "ServerError"
             /\ rq_result.status = server_response.status
             /\ rq_result.url = RequestUrl
             /\ rq_result.request = Take(RequestText, AbrLimit)
             /\ Len(rq_result.request) <= AbrLimit
        ELSE /\ rq_result.kind \in {"Ok", "DeserializationError"}
             /\ rq_result.kind = "Ok" <=>
                    (server_response.body.readable /\ server_response.body.as_r.valid)
             /\ rq_result.kind = "Ok" => rq_result.value = server_response.body.as_r.v

\* C15 witness: a 500 whose body would deserialize as the expected type, answered
\* to a post with a request text longer than AbrLimit
C15_Witness ==
    /\ rq_call.op = "post_request"
    /\ Len(rq_call.body) = AbrLimit + 1
    /\ server_response.status = 500
    /\ server_response.body.readable /\ server_response.body.as_r.valid
    /\ rq_result.kind = "ServerError"
    /\ Len(rq_result.request) = AbrLimit

(***************************************************************************)
(* Properties of the balance prover client and of a synchronization run    *)
(***************************************************************************)
RequestLayerKinds == {"Ok", "NetworkError", "ServerError", "DeserializationError"}

LastProofBefore(i) ==
    LET done == {j \in 1..(i - 1) : sync_log[j].ok}
    IN  IF done = {} THEN None
        ELSE Some(sync_log[CHOOSE j \in done : \A k \in done : k <= j].proof)

\* the last stage applied before request i of the run
LastStageBefore(i) ==
    LET done == {j \in 1..(i - 1) : sync_log[j].ok}
    IN  IF done = {} THEN "none"
        ELSE sync_log[CHOOSE j \in done : \A k \in done : k <= j].stage

StageEndpoint(stage) ==
    CASE stage = "spent" -> "/balance-prover/prove-spent"
      [] stage = "send" -> "/balance-prover/prove-send"
      [] stage = "update" -> "/balance-prover/prove-update"
      [] stage = "receive_transfer" -> "/balance-prover/prove-receive-transfer"
      [] stage = "receive_deposit" -> "/balance-prover/prove-receive-deposit"
      [] stage = "withdrawal" -> "/balance-prover/prove-single-withdrawal"

StageRequest(call) ==
    CASE call.stage = "spent" -> [spent_witness |-> call.witness]
      [] call.stage = "send" ->
           [pubkey |-> "pk", tx_witnes |-> call.witness, update_witness |-> "uw",
            spent_proof |-> call.spent_proof, prev_proof |-> call.prev_proof]
      [] call.stage = "update" ->
           [pubkey |-> "pk", update_witness |-> call.witness,
            prev_proof |-> call.prev_proof]
      [] call.stage = "receive_transfer" ->
           [pubkey |-> "pk", receive_transfer_witness |-> call.witness,
            prev_proof |-> call.prev_proof]
      [] call.stage = "receive_deposit" ->
           [pubkey |-> "pk", receive_deposit_witness |-> call.witness,
            prev_proof |-> call.prev_proof]
      [] call.stage = "withdrawal" -> [withdrawal_witness |-> call.witness]

\* C14: a stage operation called with the token set posts one request to the
\* endpoint of its stage, built from its arguments alone, and returns what that one
\* post_request returns: its error as it is, with no more attempts than the
\* request layer makes for one request, or the proof of the response.
C14_OneRequestResultUnmodified ==
    (bp_call.stage # "none" /\ bearer_env.some) =>
        /\ bp_request.endpoint = StageEndpoint(bp_call.stage)
        /\ bp_request.request = StageRequest(bp_call)
        /\ bp_result = post_request(BaseUrl, StageEndpoint(bp_call.stage),
                                    <<StageRequest(bp_call)>>, Some(bearer_env.v),
                                    net_fails, server_response)
        /\ bp_result.attempts <= MaxAttempts
        /\ bp_result.kind = "Ok" => bp_result.value = server_response.body.as_r.v

\* C14 witness: prove_receive_deposit met a transport that never got through and
\* returned NetworkError after the attempts of one request
C14_Witness ==
    /\ bp_call.stage = "receive_deposit"
    /\ bp_call.prev_proof.some
    /\ bp_request.endpoint = "/balance-prover/prove-receive-deposit"
    /\ net_fails >= MaxAttempts
    /\ bp_result.kind = "NetworkError"
    /\ bp_result.attempts = MaxAttempts

\* a step that is a call of one of the six stage operations
StageCalled == <<bp_call, bp_request, bp_result>>' # <<bp_call, bp_request, bp_result>>

\* C11: each of the six stage operations reads the bearer token when it is called:
\* with the token absent at the call it returns ServerError::EnvError and makes no
\* HTTP attempt; with the token present at the call it does not return EnvError.
C11_AbsentTokenIsEnvErrorBeforeIO ==
    [][StageCalled =>
         IF ~bearer_env.some
         THEN bp_result'.kind = "EnvError" /\ bp_result'.attempts = 0
         ELSE bp_result'.kind # "EnvError"]_vars

\* C11 witness: prove_update called with the token absent returned EnvError
\* without an attempt, its request built but never sent
C11_Witness ==
    /\ bp_call.stage = "update"
    /\ bp_request.endpoint = "/balance-prover/prove-update"
    /\ ~bearer_env.some
    /\ bp_result.kind = "EnvError"
    /\ bp_result.attempts = 0

C9_PrefixMismatchIsDecodeError ==
    (cd_call.op = "decode" /\ cd_tampered /\ cd_call.digest = cd_digest) =>
        cd_result.kind = "Err"

====
